---- MODULE Spec2Model ----
(***************************************************************************)
(* Model of src/src/main.rs: Huffman coding over a string of chars.        *)
(*                                                                         *)
(* The pipeline of main() is modelled step by step:                        *)
(*   count_chars -> initialize_nodes -> construct_tree (one action per     *)
(*   loop iteration) -> calculate_encodings -> huffman_encode ->           *)
(*   huffman_decode (one action per consumed bit) -> assert!(y == input).  *)
(* calculate_huffman_table (a second, independent build from the same      *)
(* string) is modelled as one action.                                      *)
(*                                                                         *)
(* chars are modelled by their code points (integers); a BitVec is a       *)
(* sequence of BOOLEAN; a HashMap is a function plus the order in which    *)
(* iter() yields its entries (unspecified by std, so chosen freely); a     *)
(* BiMap is a set of <<left, right>> pairs; an Rc<RefCell<TreeNode>> is    *)
(* the node value it points to (the tree is never mutated after it is      *)
(* built, and a proper subtree is never equal to the whole tree).          *)
(***************************************************************************)
EXTENDS Naturals, Integers, Sequences, FiniteSets

\* ---------------------------------------------------------------- bounds
NumSyms == 4
MaxLen == 4
MaxBits == 3

Alphabet == 1..NumSyms
Inputs == UNION {[1..n -> Alphabet] : n \in 0..MaxLen}
BitSeqs == UNION {[1..n -> BOOLEAN] : n \in 0..MaxBits}

VARIABLES pc, input, counts, iterOrder, nodes, tree, table, x, stream, bits,
          node, result, tree2, table2, panic

vars == <<pc, input, counts, iterOrder, nodes, tree, table, x, stream, bits,
          node, result, tree2, table2, panic>>

\* ------------------------------------------------------------- helpers
Last(s) == s[Len(s)]
Front(s) == SubSeq(s, 1, Len(s) - 1)
Perms(S) == {f \in [1..Cardinality(S) -> S] : \A i, j \in 1..Cardinality(S) : f[i] = f[j] => i = j}
EmptyMap == [c \in {} |-> 0]
NoTree == [type |-> "None"]

\* ------------------------------------------------------------ TreeNode
new_leaf(char, count) == [type |-> "Leaf", char |-> char, count |-> count]

new_internal_left_only(left, right) ==
    [type |-> "Internal", left |-> left, right |-> right, count |-> 0 + left.count]

new_internal(left, right) ==
    [type |-> "Internal", left |-> left, right |-> right,
     count |-> (0 + left.count) + right.count]

\* ------------------------------------------------------------ count_chars
RECURSIVE count_chars(_)
count_chars(string) ==
    IF string = <<>> THEN EmptyMap
    ELSE LET chars == count_chars(Front(string))
             char == Last(string)
             old == IF char \in DOMAIN chars THEN chars[char] ELSE 0
         IN [c \in DOMAIN chars \cup {char} |-> IF c = char THEN old + 1 ELSE chars[c]]

\* ------------------------------------------------------- slice::sort_by_key
\* Keys are tuples of integers ordered lexicographically (Ord for tuples);
\* Reverse(n) is modelled by -n, which reverses the order of the counts.
key_lt(a, b) == \E i \in 1..Len(a) : a[i] < b[i] /\ \A j \in 1..(i - 1) : a[j] = b[j]

\* Stable sort of s by keys[i], the key of s[i]: an element is placed after
\* every element whose key is smaller and after every earlier element whose
\* key is equal.
sort_by_key(s, keys) ==
    LET rank(i) == 1 + Cardinality({j \in 1..Len(s) :
                        key_lt(keys[j], keys[i]) \/ (~key_lt(keys[i], keys[j]) /\ j < i)})
    IN [p \in 1..Len(s) |-> s[CHOOSE i \in 1..Len(s) : rank(i) = p]]

\* --------------------------------------------------------- initialize_nodes
\* vec holds pairs <<char, count>>
initialize_nodes_no_tiebreak(cnts, order) ==
    LET vec == [i \in 1..Len(order) |-> <<order[i], cnts[order[i]]>>]
        sorted == sort_by_key(vec, [i \in 1..Len(vec) |-> <<-vec[i][2]>>])
    IN [i \in 1..Len(sorted) |-> new_leaf(sorted[i][1], sorted[i][2])]

initialize_nodes_ascending(cnts, order) ==
    LET vec == [i \in 1..Len(order) |-> <<order[i], cnts[order[i]]>>]
        sorted == sort_by_key(vec, [i \in 1..Len(vec) |-> <<vec[i][2], vec[i][1]>>])
    IN [i \in 1..Len(sorted) |-> new_leaf(sorted[i][1], sorted[i][2])]

initialize_nodes(cnts, order) ==
    LET vec == [i \in 1..Len(order) |-> <<order[i], cnts[order[i]]>>]
        sorted == sort_by_key(vec, [i \in 1..Len(vec) |-> <<-vec[i][2], vec[i][1]>>])
    IN [i \in 1..Len(sorted) |-> new_leaf(sorted[i][1], sorted[i][2])]

\* ----------------------------------------------------------- construct_tree
\* Body of the while loop, lines 62-64.  Rust evaluates the arguments of
\* new_internal left to right: the node popped first is `left`.
merge_step_no_resort(ns) ==
    LET n == Len(ns)
        xnode == new_internal(ns[n], ns[n - 1])
    IN Append(SubSeq(ns, 1, n - 2), xnode)

merge_step(ns) ==
    LET n == Len(ns)
        xnode == new_internal(ns[n], ns[n - 1])
        pushed == Append(SubSeq(ns, 1, n - 2), xnode)
    IN sort_by_key(pushed, [i \in 1..Len(pushed) |-> <<-pushed[i].count>>])

RECURSIVE construct_tree(_)
construct_tree(ns) ==
    IF Len(ns) > 1 THEN construct_tree(merge_step(ns))
    ELSE IF ns = <<>> THEN NoTree    \* pop() is None: unwrap panics
    ELSE Last(ns)

\* ------------------------------------------------------------------ BiMap
bimap_insert(m, l, r) == {p \in m : p[1] # l /\ p[2] # r} \cup {<<l, r>>}
contains_left(m, l) == \E p \in m : p[1] = l
get_by_left(m, l) == (CHOOSE p \in m : p[1] = l)[2]

\* ------------------------------------------------------ calculate_encodings
RECURSIVE enc_loop_no_left_bit(_, _)
enc_loop_no_left_bit(stack, encodings) ==
    IF stack = <<>> THEN encodings
    ELSE LET nd == Last(stack)[1]
             index == Last(stack)[2]
             rest == Front(stack)
         IN IF nd.type = "Leaf"
            THEN enc_loop_no_left_bit(rest, bimap_insert(encodings, nd.char, index))
            ELSE enc_loop_no_left_bit(
                     Append(Append(rest, <<nd.right, Append(index, TRUE)>>),
                            <<nd.left, index>>),
                     encodings)

RECURSIVE enc_loop_swapped(_, _)
enc_loop_swapped(stack, encodings) ==
    IF stack = <<>> THEN encodings
    ELSE LET nd == Last(stack)[1]
             index == Last(stack)[2]
             rest == Front(stack)
         IN IF nd.type = "Leaf"
            THEN enc_loop_swapped(rest, bimap_insert(encodings, nd.char, index))
            ELSE enc_loop_swapped(
                     Append(Append(rest, <<nd.right, Append(index, FALSE)>>),
                            <<nd.left, Append(index, TRUE)>>),
                     encodings)

RECURSIVE enc_loop(_, _)
enc_loop(stack, encodings) ==
    IF stack = <<>> THEN encodings
    ELSE LET nd == Last(stack)[1]
             index == Last(stack)[2]
             rest == Front(stack)
         IN IF nd.type = "Leaf"
            THEN enc_loop(rest, bimap_insert(encodings, nd.char, index))
            ELSE enc_loop(
                     Append(Append(rest, <<nd.right, Append(index, TRUE)>>),
                            <<nd.left, Append(index, FALSE)>>),
                     encodings)

calculate_encodings(t) == enc_loop(<< <<t, <<>> >> >>, {})

\* ----------------------------------------------------------- huffman_encode
RECURSIVE huffman_encode(_, _)
huffman_encode(str, tbl) ==
    IF str = <<>> THEN <<>>
    ELSE huffman_encode(Front(str), tbl) \o get_by_left(tbl, Last(str))

encode_panics(str, tbl) == \E i \in 1..Len(str) : ~contains_left(tbl, str[i])

\* -------------------------------------------------------------- BitVec
RECURSIVE reverse(_)
reverse(s) == IF s = <<>> THEN <<>> ELSE <<Last(s)>> \o reverse(Front(s))

\* ==================================================================== state
Init ==
    /\ input \in Inputs
    /\ pc = "start"
    /\ counts = EmptyMap
    /\ iterOrder = <<>>
    /\ nodes = <<>>
    /\ tree = NoTree
    /\ table = {}
    /\ x = <<>>
    /\ stream = <<>>
    /\ bits = <<>>
    /\ node = NoTree
    /\ result = <<>>
    /\ tree2 = NoTree
    /\ table2 = {}
    /\ panic = "none"

\* calculate_huffman_tree, line 101: the HashMap and its iteration order
CountChars ==
    /\ pc = "start"
    /\ counts' = count_chars(input)
    /\ iterOrder' \in Perms(DOMAIN counts')
    /\ pc' = "counted"
    /\ UNCHANGED <<input, nodes, tree, table, x, stream, bits, node, result, tree2, table2, panic>>

\* line 102: counts is moved into initialize_nodes and dropped there
InitializeNodes ==
    /\ pc = "counted"
    /\ nodes' = initialize_nodes(counts, iterOrder)
    /\ counts' = EmptyMap
    /\ iterOrder' = <<>>
    /\ pc' = "constructing"
    /\ UNCHANGED <<input, tree, table, x, stream, bits, node, result, tree2, table2, panic>>

\* one iteration of the loop at lines 61-65
ConstructStep ==
    /\ pc = "constructing"
    /\ Len(nodes) > 1
    /\ nodes' = merge_step(nodes)
    /\ UNCHANGED <<pc, input, counts, iterOrder, tree, table, x, stream, bits, node, result, tree2, table2, panic>>

\* line 66: nodes.pop().unwrap()
ConstructReturn ==
    /\ pc = "constructing"
    /\ ~(Len(nodes) > 1)
    /\ IF nodes = <<>>
       THEN /\ panic' = "unwrap_none"
            /\ pc' = "panicked"
            /\ UNCHANGED <<tree, nodes>>
       ELSE /\ tree' = Last(nodes)
            /\ nodes' = Front(nodes)
            /\ pc' = "built"
            /\ UNCHANGED panic
    /\ UNCHANGED <<input, counts, iterOrder, table, x, stream, bits, node, result, tree2, table2>>

\* main, line 179
CalculateEncodings ==
    /\ pc = "built"
    /\ table' = calculate_encodings(tree)
    /\ pc' = "tabled"
    /\ UNCHANGED <<input, counts, iterOrder, nodes, tree, x, stream, bits, node, result, tree2, table2, panic>>

\* calculate_huffman_table, lines 106-111: a second build from the same string,
\* with its own HashMap (and so its own iteration order)
CalculateHuffmanTable ==
    /\ pc = "tabled"
    /\ counts' = count_chars(input)
    /\ iterOrder' \in Perms(DOMAIN counts')
    /\ tree2' = construct_tree(initialize_nodes(counts', iterOrder'))
    /\ IF tree2' = NoTree
       THEN /\ panic' = "unwrap_none"
            /\ pc' = "panicked"
            /\ UNCHANGED table2
       ELSE /\ table2' = calculate_encodings(tree2')
            /\ pc' = "rebuilt"
            /\ UNCHANGED panic
    /\ UNCHANGED <<input, nodes, tree, table, x, stream, bits, node, result>>

\* main, line 181
Encode ==
    /\ pc = "tabled"
    /\ IF encode_panics(input, table)
       THEN /\ panic' = "expect_char_in_table"
            /\ pc' = "panicked"
            /\ UNCHANGED x
       ELSE /\ x' = huffman_encode(input, table)
            /\ pc' = "encoded"
            /\ UNCHANGED panic
    /\ UNCHANGED <<input, counts, iterOrder, nodes, tree, table, stream, bits, node, result, tree2, table2>>

\* huffman_decode, lines 135-137, applied to the encoded bits or to any stream
DecodeStart ==
    /\ pc = "encoded"
    /\ \E s \in {x} \cup BitSeqs :
          /\ stream' = s
          /\ bits' = reverse(s)
    /\ result' = <<>>
    /\ node' = tree
    /\ pc' = "decoding"
    /\ UNCHANGED <<input, counts, iterOrder, nodes, tree, table, x, tree2, table2, panic>>

\* one iteration of the loop at lines 138-161
DecodeStep ==
    /\ pc = "decoding"
    /\ bits # <<>>
    /\ LET bit == Last(bits) IN
       /\ bits' = Front(bits)
       /\ IF node.type # "Internal"
          THEN /\ panic' = "unreachable"
               /\ pc' = "panicked"
               /\ UNCHANGED <<node, result>>
          ELSE LET next == IF bit THEN node.right ELSE node.left IN
               /\ IF next.type = "Leaf"
                  THEN /\ result' = Append(result, next.char)
                       /\ node' = tree
                  ELSE /\ node' = next
                       /\ UNCHANGED result
               /\ UNCHANGED <<pc, panic>>
    /\ UNCHANGED <<input, counts, iterOrder, nodes, tree, table, x, stream, tree2, table2>>

\* line 162
DecodeReturn ==
    /\ pc = "decoding"
    /\ bits = <<>>
    /\ pc' = "decoded"
    /\ UNCHANGED <<input, counts, iterOrder, nodes, tree, table, x, stream, bits, node, result, tree2, table2, panic>>

\* main, line 184: assert!(y == input), on the result of decoding x (line 183);
\* the rest of main (lines 186-191) only prints
AssertRoundTrip ==
    /\ pc = "decoded"
    /\ stream = x
    /\ IF result = input
       THEN /\ pc' = "done"
            /\ UNCHANGED panic
       ELSE /\ panic' = "assertion_failed"
            /\ pc' = "panicked"
    /\ UNCHANGED <<input, counts, iterOrder, nodes, tree, table, x, stream, bits, node, result, tree2, table2>>

Next ==
    \/ CountChars
    \/ InitializeNodes
    \/ ConstructStep
    \/ ConstructReturn
    \/ CalculateEncodings
    \/ CalculateHuffmanTable
    \/ Encode
    \/ DecodeStart
    \/ DecodeStep
    \/ DecodeReturn
    \/ AssertRoundTrip

Spec == Init /\ [][Next]_vars

\* ============================================================= properties
Distinct == {input[i] : i \in 1..Len(input)}
Occ(c) == Cardinality({i \in 1..Len(input) : input[i] = c})
IsPrefix(a, b) == Len(a) <= Len(b) /\ SubSeq(b, 1, Len(a)) = a

RECURSIVE SumOver(_, _)
SumOver(S, f) ==
    IF S = {} THEN 0
    ELSE LET e == CHOOSE e \in S : TRUE IN f[e] + SumOver(S \ {e}, f)

RECURSIVE Leaves(_)
Leaves(t) == IF t.type = "Leaf" THEN {t} ELSE Leaves(t.left) \cup Leaves(t.right)

RECURSIVE NumInternal(_)
NumInternal(t) ==
    IF t.type = "Leaf" THEN 0 ELSE 1 + NumInternal(t.left) + NumInternal(t.right)

RECURSIVE WellWeighted(_)
WellWeighted(t) ==
    IF t.type = "Leaf" THEN TRUE
    ELSE /\ t.count = t.left.count + t.right.count
         /\ WellWeighted(t.left)
         /\ WellWeighted(t.right)

\* C1 (Round-trip): for an input with at least 2 distinct symbols, decoding
\* the bits produced by huffman_encode against the same tree returns, without
\* a panic, exactly the input.
C1_RoundTrip ==
    Cardinality(Distinct) >= 2 =>
        /\ pc # "panicked"
        /\ (pc = "decoded" /\ stream = x) => result = input

C1_Witness ==
    /\ pc = "decoded"
    /\ stream = x
    /\ Cardinality(Distinct) >= 3
    /\ Len(x) > Len(input)
    /\ result = input

\* C2 (Prefix-free): in every table produced by calculate_encodings, the codes
\* of two distinct symbols are never a prefix of one another.
C2_PrefixFree ==
    \A tbl \in {table, table2} :
        \A p, q \in tbl : p[1] # q[1] => ~IsPrefix(p[2], q[2])

C2_Witness ==
    /\ pc = "tabled"
    /\ Cardinality({p[1] : p \in table}) >= 3
    /\ \E p, q \in table : Len(p[2]) < Len(q[2])

\* C3 (Empty input): building a tree from the empty input fails cleanly; it
\* neither panics nor returns a tree.
C3_EmptyInputFailsCleanly ==
    input = <<>> => (panic = "none" /\ tree = NoTree)

\* C4 (Single distinct symbol): construction never yields a table in which the
\* sole symbol's code is the zero-length bit string.
C4_SingleSymbolCodeNonEmpty ==
    Cardinality(Distinct) = 1 => \A p \in table : Len(p[2]) >= 1

\* C5 (Truncated stream): huffman_decode never returns normally when the bits
\* ran out with the current-node pointer strictly inside the tree.
C5_TruncatedStreamFails ==
    pc = "decoded" => node = tree

\* C6 (Weight invariant): in the tree returned by construct_tree every Internal
\* count is the sum of its children's counts, every Leaf count is the number
\* of occurrences of its symbol, and the root count is the input length.
C6_WeightInvariant ==
    tree # NoTree =>
        /\ WellWeighted(tree)
        /\ \A l \in Leaves(tree) : l.count = Occ(l.char)
        /\ tree.count = Len(input)

C6_Witness ==
    /\ pc = "built"
    /\ NumInternal(tree) >= 2
    /\ \E l \in Leaves(tree) : l.count >= 2

\* C7 (Determinism): two builds from the same frequency map, whatever the
\* iteration orders of the two maps, give identical trees and identical tables.
C7_Determinism ==
    pc = "rebuilt" => (tree2 = tree /\ table2 = table)

C7_Witness ==
    /\ pc = "rebuilt"
    /\ \E a, b \in Distinct : a # b /\ Occ(a) = Occ(b)
    /\ \E i, j \in 1..Len(iterOrder) : i < j /\ iterOrder[i] > iterOrder[j]
    /\ tree2 = tree

\* All full binary trees over the leaf set S, up to exchanging children
\* (which does not change any leaf's depth).
RECURSIVE AllTrees(_)
AllTrees(S) ==
    IF Cardinality(S) = 1 THEN {[leaf |-> CHOOSE c \in S : TRUE]}
    ELSE LET m == CHOOSE c \in S : \A d \in S : c <= d
         IN UNION {{[l |-> a, r |-> b] : a \in AllTrees(A), b \in AllTrees(S \ A)} :
                      A \in {B \in SUBSET S : m \in B /\ B # S}}

RECURSIVE TreeCost(_, _)
TreeCost(t, depth) ==
    IF "leaf" \in DOMAIN t THEN Occ(t.leaf) * depth
    ELSE TreeCost(t.l, depth + 1) + TreeCost(t.r, depth + 1)

CodeCost(tbl) == SumOver(Distinct, [c \in Distinct |-> Occ(c) * Len(get_by_left(tbl, c))])

\* C8 (Optimality): with at least 2 symbols, every symbol has a code and the
\* total weighted code length is minimal among all full binary trees over the
\* same symbols.
C8_Optimality ==
    (pc = "tabled" /\ Cardinality(Distinct) >= 2) =>
        /\ \A c \in Distinct : contains_left(table, c)
        /\ \A t \in AllTrees(Distinct) : CodeCost(table) <= TreeCost(t, 0)

C8_Witness ==
    /\ pc = "tabled"
    /\ Cardinality(Distinct) >= 3
    /\ \E t \in AllTrees(Distinct) : CodeCost(table) < TreeCost(t, 0)

\* C9 (Decoder pointer invariant): whenever a bit is about to be consumed the
\* current-node pointer is at an Internal node, so unreachable!() never runs.
C9_DecoderPointerInternal ==
    /\ (pc = "decoding" /\ bits # <<>>) => node.type = "Internal"
    /\ panic # "unreachable"

\* C10 (Greedy merge): at the start of every iteration the working list is in
\* non-increasing order of count; with n >= 1 initial leaves, the number of
\* merges done is n minus the length of the list, and the loop exits with
\* exactly one node after n - 1 merges; every iteration combines the last two
\* nodes, whose counts are at most that of each node left, and shrinks the
\* list by exactly one.
C10_LoopState ==
    pc = "constructing" =>
        /\ \A i, j \in 1..Len(nodes) : i < j => nodes[i].count >= nodes[j].count
        /\ Len(nodes) + SumOver(1..Len(nodes), [i \in 1..Len(nodes) |-> NumInternal(nodes[i])])
               = Cardinality(Distinct)
        /\ (Cardinality(Distinct) >= 1 /\ ~(Len(nodes) > 1)) =>
               (Len(nodes) = 1 /\ NumInternal(nodes[1]) = Cardinality(Distinct) - 1)

C10_Iteration ==
    (pc = "constructing" /\ pc' = "constructing" /\ nodes' # nodes) =>
        LET n == Len(nodes) IN
        /\ Len(nodes') = n - 1
        /\ \A i \in 1..(n - 2) : /\ nodes[i].count >= nodes[n].count
                                 /\ nodes[i].count >= nodes[n - 1].count
        /\ \E k \in 1..Len(nodes') : /\ nodes'[k].type = "Internal"
                                     /\ nodes'[k].left = nodes[n]
                                     /\ nodes'[k].right = nodes[n - 1]

C10_GreedyMerge == []C10_LoopState /\ [][C10_Iteration]_vars

C10_Witness ==
    /\ pc = "constructing"
    /\ Len(nodes) = 1
    /\ NumInternal(nodes[1]) >= 2
====
